---------------------------- MODULE Spec2Model ----------------------------
(***************************************************************************)
(* Timetable CSP solver of PS2/csp_timetable.py: backtracking search with  *)
(* MRV variable selection and LCV value ordering, with or without forward  *)
(* checking, under a wall-clock time budget.                               *)
(*                                                                         *)
(* The recursion of recurse2 is modelled by an explicit stack of frames;   *)
(* `ctl' is the position of the running call.  The driver makes the calls  *)
(* listed in `calls' one after the other on the same problem, as           *)
(* run_csp_experiments does, and keeps each returned record in `results'.  *)
(***************************************************************************)
EXTENDS Integers, Sequences, FiniteSets, TLC

(***************************************************************************)
(* Bounds: the longest generated course list, the longest course list      *)
(* given a tight budget when the driver makes two calls, and the longest   *)
(* duration of a call in microseconds.                                     *)
(***************************************************************************)
MaxCourses == 3
MaxTightCourses == 2
MaxElapsed == 1

\* best_size = 10**9 in select_mrv
BigSize == 1000000000
\* time_limit_ms=20000, the default budget of backtrack_search
DefaultLimitMs == 20000

NoVar == 0

AllSlots == <<"Mon_9", "Mon_11", "Tue_9", "Tue_11", "Wed_9">>

Course(id, teacher, groups, size) ==
    [id |-> id, teacher |-> teacher, groups |-> groups, size |-> size]

Room(id, capacity) == [id |-> id, capacity |-> capacity]

EmptyMap == [x \in {} |-> <<>>]

(***************************************************************************)
(* build_domains: for each course, the (timeslot, room) pairs whose room   *)
(* is large enough, timeslot-major, rooms in the given order.              *)
(***************************************************************************)
SlotRoomPairs(timeslots, rooms) ==
    [k \in 1..(Len(timeslots) * Len(rooms)) |->
        <<((k - 1) \div Len(rooms)) + 1, ((k - 1) % Len(rooms)) + 1>>]

RoomFitsWrong(r, c) == r.capacity <= c.size

RoomFits(r, c) == r.capacity >= c.size

build_domains(courses, timeslots, rooms) ==
    [i \in 1..Len(courses) |->
        LET fit == SelectSeq(SlotRoomPairs(timeslots, rooms),
                             LAMBDA p : RoomFits(rooms[p[2]], courses[i]))
        IN  [k \in 1..Len(fit) |-> <<timeslots[fit[k][1]], rooms[fit[k][2]].id>>]]

(***************************************************************************)
(* violates: does giving `value' to course_id clash with an entry of the   *)
(* partial assignment that has the same timeslot?                          *)
(***************************************************************************)
ClashNoRoom(other, c, oroom, room) ==
    \/ other.teacher = c.teacher
    \/ other.groups \cap c.groups # {}

Clash(other, c, oroom, room) ==
    \/ other.teacher = c.teacher
    \/ other.groups \cap c.groups # {}
    \/ oroom = room

violatesAnySlot(asg, course_by_id, course_id, value) ==
    \E other_id \in DOMAIN asg :
        Clash(course_by_id[other_id], course_by_id[course_id],
              asg[other_id][2], value[2])

violatesOtherSlots(asg, course_by_id, course_id, value) ==
    \E other_id \in DOMAIN asg :
        /\ asg[other_id][1] # value[1]
        /\ Clash(course_by_id[other_id], course_by_id[course_id],
                 asg[other_id][2], value[2])

violates(asg, course_by_id, course_id, value) ==
    \E other_id \in DOMAIN asg :
        /\ asg[other_id][1] = value[1]
        /\ Clash(course_by_id[other_id], course_by_id[course_id],
                 asg[other_id][2], value[2])

(***************************************************************************)
(* select_mrv: first variable of `unassigned' with the strictly smallest   *)
(* domain; NoVar (None) when the list is empty.                            *)
(***************************************************************************)
RECURSIVE MrvLoopLast(_, _, _, _, _)
MrvLoopLast(unassigned, doms, k, best, best_size) ==
    IF k > Len(unassigned) THEN best
    ELSE LET var == unassigned[k]
             s == Len(doms[var])
         IN  IF s <= best_size
             THEN MrvLoopLast(unassigned, doms, k + 1, var, s)
             ELSE MrvLoopLast(unassigned, doms, k + 1, best, best_size)

RECURSIVE MrvLoop(_, _, _, _, _)
MrvLoop(unassigned, doms, k, best, best_size) ==
    IF k > Len(unassigned) THEN best
    ELSE LET var == unassigned[k]
             s == Len(doms[var])
         IN  IF s < best_size
             THEN MrvLoop(unassigned, doms, k + 1, var, s)
             ELSE MrvLoop(unassigned, doms, k + 1, best, best_size)

select_first(unassigned, doms) ==
    IF Len(unassigned) = 0 THEN NoVar ELSE unassigned[1]

select_mrv(unassigned, doms) == MrvLoop(unassigned, doms, 1, NoVar, BigSize)

(***************************************************************************)
(* lcv_order: the values of var's domain, stably sorted by the number of   *)
(* other unassigned variables counted as losing a value.                   *)
(***************************************************************************)
RECURSIVE ScanFirstOnly(_, _, _, _)
ScanFirstOnly(dom, k, v, related) ==
    IF k > Len(dom) THEN 0
    ELSE IF dom[k][1] # v[1] THEN ScanFirstOnly(dom, k + 1, v, related)
    ELSE IF dom[k][2] = v[2] THEN 1
    ELSE IF related THEN 1
    ELSE 0

RECURSIVE ScanDomain(_, _, _, _)
\* the loop over domains[other]: 1 when it reaches an `elim += 1; break'
ScanDomain(dom, k, v, related) ==
    IF k > Len(dom) THEN 0
    ELSE IF dom[k][1] # v[1] THEN ScanDomain(dom, k + 1, v, related)
    ELSE IF dom[k][2] = v[2] THEN 1
    ELSE IF related THEN 1
    ELSE ScanDomain(dom, k + 1, v, related)

RECURSIVE ElimLoop(_, _, _, _, _, _)
ElimLoop(var, v, doms, unassigned, course_by_id, k) ==
    IF k > Len(unassigned) THEN 0
    ELSE LET other == unassigned[k]
             co == course_by_id[var]
             co2 == course_by_id[other]
             related == \/ co.teacher = co2.teacher
                        \/ co.groups \cap co2.groups # {}
         IN  (IF other = var THEN 0 ELSE ScanDomain(doms[other], 1, v, related))
             + ElimLoop(var, v, doms, unassigned, course_by_id, k + 1)

\* list.sort(key=...) is stable: ascending key, ties in the original order
StableSortByKey(vals, key) ==
    LET n == Len(vals)
        rank(i) == 1 + Cardinality({j \in 1..n :
                          \/ key[j] < key[i]
                          \/ (key[j] = key[i] /\ j < i)})
    IN  [p \in 1..n |-> vals[CHOOSE i \in 1..n : rank(i) = p]]

lcv_order(var, doms, unassigned, course_by_id) ==
    LET vals == doms[var]
        elim == [i \in 1..Len(vals) |->
                    ElimLoop(var, vals[i], doms, unassigned, course_by_id, 1)]
    IN  StableSortByKey(vals, elim)


(***************************************************************************)
(* Problem instances handed to the solver.                                 *)
(***************************************************************************)
\* teacher and groups of a generated course: the first two kinds are
\* unrelated, the third shares its teacher with the first and its group with
\* the second
Kinds == {<<"T1", {"G1"}>>, <<"T2", {"G2"}>>, <<"T1", {"G2"}>>}

Sizes == {1, 2}

CourseLists ==
    LET Attrs == Kinds \X Sizes
    IN  UNION {{[i \in 1..n |-> Course(i, f[i][1][1], f[i][1][2], f[i][2])] :
                    f \in [1..n -> Attrs]} : n \in 0..MaxCourses}

RoomLists ==
    {<<Room("R1", 1)>>, <<Room("R1", 2)>>, <<Room("R1", 1), Room("R2", 2)>>}

SlotLists == {SubSeq(AllSlots, 1, 1), SubSeq(AllSlots, 1, 2)}

Problem(cs, ts, rs, doms) ==
    [courses |-> cs, timeslots |-> ts, rooms |-> rs, domains_init |-> doms]

\* run_csp_experiments: domains = build_domains(courses, timeslots, rooms)
BuiltProblem(cs, ts, rs) == Problem(cs, ts, rs, build_domains(cs, ts, rs))

GeneratedProblems ==
    {BuiltProblem(cs, ts, rs) : cs \in CourseLists, ts \in SlotLists, rs \in RoomLists}

\* three unrelated courses of size 10, one room of capacity 10, two timeslots
ThreeCoursesOneRoom ==
    BuiltProblem(<<Course(1, "T1", {"G1"}, 10), Course(2, "T2", {"G2"}, 10),
                   Course(3, "T3", {"G3"}, 10)>>,
                 SubSeq(AllSlots, 1, 2), <<Room("R1", 10)>>)

\* five courses, two timeslots, three rooms
FiveCourses ==
    BuiltProblem(<<Course(1, "T3", {}, 3), Course(2, "T3", {"G1", "G2"}, 3),
                   Course(3, "T2", {}, 2), Course(4, "T1", {"G1", "G2"}, 1),
                   Course(5, "T1", {}, 2)>>,
                 SubSeq(AllSlots, 1, 2),
                 <<Room("R1", 3), Room("R2", 1), Room("R3", 2)>>)

\* four courses with a caller-supplied initial domain
FourCourses ==
    Problem(<<Course(1, "T1", {}, 1), Course(2, "T3", {"G2"}, 1),
              Course(3, "T2", {}, 1), Course(4, "T3", {"G1", "G2"}, 1)>>,
            SubSeq(AllSlots, 1, 2), <<Room("R1", 1), Room("R2", 1)>>,
            <<  << <<"Mon_9", "R1">>, <<"Mon_9", "R2">>, <<"Mon_11", "R1">> >>,
                << <<"Mon_11", "R2">>, <<"Mon_11", "R1">> >>,
                << <<"Mon_9", "R1">> >>,
                << <<"Mon_9", "R2">>, <<"Mon_11", "R1">> >>  >>)

Problems == GeneratedProblems \cup {ThreeCoursesOneRoom, FiveCourses, FourCourses}

TimeLimits == {0, DefaultLimitMs}

(***************************************************************************)
(* State.                                                                  *)
(***************************************************************************)
VARIABLES
    courses,          \* the courses of the problem (read-only input)
    timeslots,        \* the timeslots of the problem (read-only input)
    rooms,            \* the rooms of the problem (read-only input)
    domains_init,     \* the initial domains given to every call
    time_limit_ms,    \* the budget given to every call
    calls,            \* forward_checking of each call the driver makes
    results,          \* the records returned so far
    forward_checking, \* mode of the running call
    elapsed_us,       \* perf_counter() - start at the last reading
    assignment,       \* course id -> (timeslot, room)
    domains,          \* course id -> sequence of (timeslot, room)
    backtracks,
    tries,
    stack,            \* the pending recurse2 frames, innermost last
    ctl,              \* position of the running call
    ret               \* value returned by the recurse2 call that just ended

vars == <<courses, timeslots, rooms, domains_init, time_limit_ms, calls, results,
          forward_checking, elapsed_us, assignment, domains, backtracks, tries,
          stack, ctl, ret>>

inputs == <<courses, timeslots, rooms, domains_init, time_limit_ms, calls>>

course_ids == [i \in 1..Len(courses) |-> courses[i].id]

courses_by_id ==
    [id \in {courses[i].id : i \in 1..Len(courses)} |->
        courses[CHOOSE i \in 1..Len(courses) : courses[i].id = id]]

\* time_limit_s = time_limit_ms/1000.0, here in microseconds
time_limit_us == time_limit_ms * 1000

TimeoutReversed(now_us) == now_us < time_limit_us

\* timeout(): (time.perf_counter() - start) > time_limit_s
timeout(now_us) == now_us > time_limit_us

AllAssignedNever == Cardinality(DOMAIN assignment) > Len(course_ids)

\* len(assignment) == len(course_ids)
AllAssigned == Cardinality(DOMAIN assignment) = Len(course_ids)

Top == stack[Len(stack)]

\* a recurse2 call returns: its frame leaves the stack
Pop(s) == SubSeq(s, 1, Len(s) - 1)

SetTop(f) == [stack EXCEPT ![Len(stack)] = f]

PutNothing(m, k, v) == m

\* m[k] = v on a dict
Put(m, k, v) == [x \in DOMAIN m \cup {k} |-> IF x = k THEN v ELSE m[x]]

KeepEntry(m, k) == m

\* assignment.pop(var, None)
Drop(m, k) == [x \in DOMAIN m \ {k} |-> m[x]]


(***************************************************************************)
(* Forward checking of recurse2: for each other unassigned variable, in    *)
(* list order, save its domain and keep the values that do not clash with  *)
(* the enlarged assignment; stop at the first domain left empty.           *)
(***************************************************************************)
KeepsClashing(asg, course_by_id, other, ov) ==
    violates(asg, course_by_id, other, ov)

KeepsAll(asg, course_by_id, other, ov) == TRUE

\* if not violates({**assignment}, courses_by_id, other, ov): newdom.append(ov)
Keeps(asg, course_by_id, other, ov) ==
    ~violates(asg, course_by_id, other, ov)

RECURSIVE PruneStopsOnKept(_, _, _, _, _, _, _)
PruneStopsOnKept(unassigned, var, asg, course_by_id, k, doms, saved) ==
    IF k > Len(unassigned)
    THEN [domains |-> doms, saved |-> saved, failure |-> FALSE]
    ELSE LET other == unassigned[k] IN
         IF other = var
         THEN PruneStopsOnKept(unassigned, var, asg, course_by_id, k + 1, doms, saved)
         ELSE LET saved1 == Put(saved, other, doms[other])
                  newdom == SelectSeq(doms[other],
                                LAMBDA ov : Keeps(asg, course_by_id, other, ov))
                  doms1 == [doms EXCEPT ![other] = newdom]
              IN  IF Len(newdom) # 0
                  THEN [domains |-> doms1, saved |-> saved1, failure |-> TRUE]
                  ELSE PruneStopsOnKept(unassigned, var, asg, course_by_id, k + 1,
                                        doms1, saved1)

RECURSIVE PruneSavesPruned(_, _, _, _, _, _, _)
PruneSavesPruned(unassigned, var, asg, course_by_id, k, doms, saved) ==
    IF k > Len(unassigned)
    THEN [domains |-> doms, saved |-> saved, failure |-> FALSE]
    ELSE LET other == unassigned[k] IN
         IF other = var
         THEN PruneSavesPruned(unassigned, var, asg, course_by_id, k + 1, doms, saved)
         ELSE LET newdom == SelectSeq(doms[other],
                                LAMBDA ov : Keeps(asg, course_by_id, other, ov))
                  saved1 == Put(saved, other, newdom)
                  doms1 == [doms EXCEPT ![other] = newdom]
              IN  IF Len(newdom) = 0
                  THEN [domains |-> doms1, saved |-> saved1, failure |-> TRUE]
                  ELSE PruneSavesPruned(unassigned, var, asg, course_by_id, k + 1,
                                        doms1, saved1)

RECURSIVE PruneLoop(_, _, _, _, _, _, _)
PruneLoop(unassigned, var, asg, course_by_id, k, doms, saved) ==
    IF k > Len(unassigned)
    THEN [domains |-> doms, saved |-> saved, failure |-> FALSE]
    ELSE LET other == unassigned[k] IN
         IF other = var
         THEN PruneLoop(unassigned, var, asg, course_by_id, k + 1, doms, saved)
         ELSE LET saved1 == Put(saved, other, doms[other])
                  newdom == SelectSeq(doms[other],
                                LAMBDA ov : Keeps(asg, course_by_id, other, ov))
                  doms1 == [doms EXCEPT ![other] = newdom]
              IN  IF Len(newdom) = 0
                  THEN [domains |-> doms1, saved |-> saved1, failure |-> TRUE]
                  ELSE PruneLoop(unassigned, var, asg, course_by_id, k + 1,
                                 doms1, saved1)

ForwardCheckNoFailure(unassigned, var, asg, doms) ==
    IF forward_checking
    THEN [PruneLoop(unassigned, var, asg, courses_by_id, 1, doms, EmptyMap)
             EXCEPT !.failure = FALSE]
    ELSE [domains |-> doms, saved |-> EmptyMap, failure |-> FALSE]

ForwardCheckAlways(unassigned, var, asg, doms) ==
    PruneLoop(unassigned, var, asg, courses_by_id, 1, doms, EmptyMap)

\* saved = {}; failure = False; if forward_checking: ...
ForwardCheck(unassigned, var, asg, doms) ==
    IF forward_checking
    THEN PruneLoop(unassigned, var, asg, courses_by_id, 1, doms, EmptyMap)
    ELSE [domains |-> doms, saved |-> EmptyMap, failure |-> FALSE]

RestoreNothing(doms, saved) == doms

\* for k,v in saved.items(): domains[k] = v
RestoreDomains(doms, saved) ==
    [k \in DOMAIN doms |-> IF k \in DOMAIN saved THEN saved[k] ELSE doms[k]]

LeftoverDomains == domains

\* domains = {k:list(v) for k,v in domains_init.items()}
FreshDomains == domains_init

(***************************************************************************)
(* Init: the driver holds a problem and has made no call yet.              *)
(***************************************************************************)
InitWith(problems, callLists, limits) ==
    /\ \E p \in problems :
        /\ courses = p.courses
        /\ timeslots = p.timeslots
        /\ rooms = p.rooms
        /\ domains_init = p.domains_init
        /\ domains = p.domains_init
    /\ time_limit_ms \in limits
    /\ calls \in callLists
    /\ results = <<>>
    /\ forward_checking = FALSE
    /\ elapsed_us = 0
    /\ assignment = EmptyMap
    /\ backtracks = 0
    /\ tries = 0
    /\ stack = <<>>
    /\ ctl = "idle"
    /\ ret = FALSE

Init == InitWith(Problems, {<<FALSE>>, <<TRUE>>}, TimeLimits)

(***************************************************************************)
(* Call: backtrack_search starts (start = perf_counter(), fresh working    *)
(* state) and invokes recurse2 at the root.                                *)
(***************************************************************************)
Call ==
    /\ ctl = "idle"
    /\ Len(results) < Len(calls)
    /\ forward_checking' = calls[Len(results) + 1]
    /\ elapsed_us' = 0
    /\ assignment' = EmptyMap
    /\ domains' = FreshDomains
    /\ backtracks' = 0
    /\ tries' = 0
    /\ stack' = <<>>
    /\ ctl' = "enter"
    /\ ret' = FALSE
    /\ UNCHANGED <<inputs, results>>

(***************************************************************************)
(* time.perf_counter() - start, as timeout() may read it: the clock never  *)
(* runs backwards, and only whether a reading exceeds the budget matters,  *)
(* so a reading either repeats the last one or is the first one past the   *)
(* budget, when a call can last that long.                                 *)
(***************************************************************************)
ClockReadings ==
    {elapsed_us} \cup {t \in {time_limit_us + 1} : elapsed_us < t /\ t <= MaxElapsed}

(***************************************************************************)
(* Enter: the head of recurse2, up to the loop over the ordered values.    *)
(* The clock is read once.  A frame remembers, besides the locals of the   *)
(* call, the domains on entry and the domains and assignment before its    *)
(* latest attempt.                                                         *)
(***************************************************************************)
Enter ==
    /\ ctl = "enter"
    /\ \E now \in ClockReadings :
        /\ elapsed_us' = now
        /\ IF timeout(now)
           THEN /\ ret' = FALSE
                /\ ctl' = "return"
                /\ UNCHANGED <<backtracks, stack>>
           ELSE IF AllAssigned
           THEN /\ ret' = TRUE
                /\ ctl' = "return"
                /\ UNCHANGED <<backtracks, stack>>
           ELSE LET unassigned == SelectSeq(course_ids,
                                      LAMBDA v : v \notin DOMAIN assignment)
                    var == select_mrv(unassigned, domains)
                    ordered_vals ==
                        lcv_order(var, domains, unassigned, courses_by_id)
                IN  IF var = NoVar
                    THEN /\ ret' = FALSE
                         /\ ctl' = "return"
                         /\ UNCHANGED <<backtracks, stack>>
                    ELSE IF Len(ordered_vals) = 0
                    THEN /\ backtracks' = backtracks + 1
                         /\ ret' = FALSE
                         /\ ctl' = "return"
                         /\ UNCHANGED stack
                    ELSE /\ stack' = Append(stack,
                                [var |-> var, ordered_vals |-> ordered_vals,
                                 i |-> 0, unassigned |-> unassigned,
                                 saved |-> EmptyMap,
                                 entry_domains |-> domains,
                                 pre_domains |-> domains,
                                 pre_assignment |-> assignment])
                         /\ ctl' = "loop"
                         /\ UNCHANGED <<backtracks, ret>>
    /\ UNCHANGED <<inputs, results, forward_checking, assignment, domains, tries>>

(***************************************************************************)
(* TryValue: one iteration of the loop, from `tries += 1' to the recursive *)
(* call (or to the restore, on a propagation failure).                     *)
(***************************************************************************)
TryValue ==
    /\ ctl = "loop"
    /\ Top.i < Len(Top.ordered_vals)
    /\ LET var == Top.var
           val == Top.ordered_vals[Top.i + 1]
       IN  /\ tries' = tries + 1
           /\ IF violates(assignment, courses_by_id, var, val)
              THEN /\ stack' = SetTop([Top EXCEPT !.i = @ + 1])
                   /\ UNCHANGED <<assignment, domains, ctl>>
              ELSE LET asg == Put(assignment, var, val)
                       fc == ForwardCheck(Top.unassigned, var, asg, domains)
                   IN  /\ assignment' = asg
                       /\ domains' = fc.domains
                       /\ stack' = SetTop([Top EXCEPT !.i = @ + 1,
                                               !.saved = fc.saved,
                                               !.pre_domains = domains,
                                               !.pre_assignment = assignment])
                       /\ ctl' = IF fc.failure THEN "restore" ELSE "enter"
    /\ UNCHANGED <<inputs, results, forward_checking, elapsed_us, backtracks, ret>>

(***************************************************************************)
(* Returned: the recursive call of the innermost frame has returned.       *)
(***************************************************************************)
Returned ==
    /\ ctl = "return"
    /\ stack # <<>>
    /\ IF ret
       THEN /\ stack' = Pop(stack)
            /\ UNCHANGED ctl
       ELSE /\ ctl' = "restore"
            /\ UNCHANGED stack
    /\ UNCHANGED <<inputs, results, forward_checking, elapsed_us, assignment,
                   domains, backtracks, tries, ret>>

(***************************************************************************)
(* Restore: put the saved domains back and drop the variable's entry.      *)
(***************************************************************************)
Restore ==
    /\ ctl = "restore"
    /\ domains' = RestoreDomains(domains, Top.saved)
    /\ assignment' = Drop(assignment, Top.var)
    /\ ctl' = "loop"
    /\ UNCHANGED <<inputs, results, forward_checking, elapsed_us, backtracks,
                   tries, stack, ret>>

(***************************************************************************)
(* Exhausted: the loop is over; count a backtrack and return False.        *)
(***************************************************************************)
ExhaustedSpins ==
    /\ ctl = "loop"
    /\ Top.i = Len(Top.ordered_vals)
    /\ UNCHANGED vars

Exhausted ==
    /\ ctl = "loop"
    /\ Top.i = Len(Top.ordered_vals)
    /\ backtracks' = backtracks + 1
    /\ stack' = Pop(stack)
    /\ ret' = FALSE
    /\ ctl' = "return"
    /\ UNCHANGED <<inputs, results, forward_checking, elapsed_us, assignment,
                   domains, tries>>

(***************************************************************************)
(* Finish: the root call has returned; backtrack_search returns its        *)
(* record (time_ms, a second clock reading, is left out; `expired' notes   *)
(* whether this call ever found its budget exceeded).                      *)
(***************************************************************************)
Finish ==
    /\ ctl = "return"
    /\ stack = <<>>
    /\ results' = Append(results,
            [found |-> ret, backtracks |-> backtracks,
             assignments_tried |-> tries, solution |-> assignment,
             expired |-> timeout(elapsed_us)])
    /\ ctl' = "idle"
    /\ UNCHANGED <<inputs, forward_checking, elapsed_us, assignment, domains,
                   backtracks, tries, stack, ret>>

Next == Call \/ Enter \/ TryValue \/ Returned \/ Restore \/ Exhausted \/ Finish

Spec == Init /\ [][Next]_vars


(***************************************************************************)
(* The same machine with the driver making two calls on one problem, as    *)
(* run_csp_experiments does, in any combination of modes; the tight budget *)
(* is given with the shorter course lists only.                            *)
(***************************************************************************)
TightProblems == {p \in Problems : Len(p.courses) <= MaxTightCourses}

InitPair ==
    \/ InitWith(Problems, [1..2 -> BOOLEAN], {DefaultLimitMs})
    \/ InitWith(TightProblems, [1..2 -> BOOLEAN], {0})

SpecPair == InitPair /\ [][Next]_vars

(***************************************************************************)
(* The search is one sequential thread of control: whenever a step can be  *)
(* taken, one eventually is.  Checked on the shorter generated course      *)
(* lists and the three longer problems.                                    *)
(***************************************************************************)
FairProblems == TightProblems \cup {ThreeCoursesOneRoom, FiveCourses, FourCourses}

InitFair == InitWith(FairProblems, {<<FALSE>>, <<TRUE>>}, TimeLimits)

SpecFair == InitFair /\ [][Next]_vars /\ WF_vars(Next)


(***************************************************************************)
(* The head of a step on its own, entered with any working domains and     *)
(* with nothing or one variable assigned: three courses of every           *)
(* combination of kinds, each domain any sub-sequence of the full list of  *)
(* (timeslot, room) pairs; and a course list naming one course twice, with *)
(* that course assigned.                                                   *)
(***************************************************************************)
HeurRooms == <<Room("R1", 1), Room("R2", 1)>>

HeurSlots == SubSeq(AllSlots, 1, 2)

HeurCourseLists ==
    {[i \in 1..3 |-> Course(i, k[i][1], k[i][2], 1)] : k \in [1..3 -> Kinds]}

\* the sub-sequences of a sequence, its values kept in order
SubSequences(full) ==
    {SelectSeq([k \in 1..Len(full) |-> <<k, full[k]>>],
               LAMBDA e : e[1] \in keep) : keep \in SUBSET (1..Len(full))}

Values(pairs) == [k \in 1..Len(pairs) |-> pairs[k][2]]

InitHeuristics ==
    /\ \/ /\ courses \in HeurCourseLists
          /\ assignment \in {EmptyMap, [x \in {1} |-> <<"Mon_9", "R1">>]}
       \/ /\ courses = <<Course(1, "T1", {"G1"}, 1), Course(1, "T1", {"G1"}, 1)>>
          /\ assignment = [x \in {1} |-> <<"Mon_9", "R1">>]
    /\ timeslots = HeurSlots
    /\ rooms = HeurRooms
    /\ domains_init = build_domains(courses, timeslots, rooms)
    /\ domains \in [DOMAIN domains_init ->
                       {Values(e) : e \in SubSequences(domains_init[1])}]
    /\ time_limit_ms = DefaultLimitMs
    /\ calls = <<FALSE>>
    /\ results = <<>>
    /\ forward_checking = FALSE
    /\ elapsed_us = 0
    /\ backtracks = 0
    /\ tries = 0
    /\ stack = <<>>
    /\ ctl = "enter"
    /\ ret = FALSE

SpecHeuristics == InitHeuristics /\ [][Enter]_vars


(***************************************************************************)
(* Vocabulary of the properties below, stated independently of the         *)
(* operators that model the code.                                          *)
(***************************************************************************)
Ids == {courses[i].id : i \in 1..Len(courses)}

CourseOf(id) == courses[CHOOSE i \in 1..Len(courses) : courses[i].id = id]

RoomOf(rid) == rooms[CHOOSE j \in 1..Len(rooms) : rooms[j].id = rid]

Range(seq) == {seq[k] : k \in 1..Len(seq)}

Related(a, b) ==
    \/ CourseOf(a).teacher = CourseOf(b).teacher
    \/ CourseOf(a).groups \cap CourseOf(b).groups # {}

\* no two entries of the mapping share a timeslot and a teacher, group or room
ConflictFree(m) ==
    \A a, b \in DOMAIN m :
        (a # b /\ m[a][1] = m[b][1]) =>
            /\ CourseOf(a).teacher # CourseOf(b).teacher
            /\ CourseOf(a).groups \cap CourseOf(b).groups = {}
            /\ m[a][2] # m[b][2]

Built == domains_init = build_domains(courses, timeslots, rooms)

\* a complete conflict-free assignment drawn from the initial domains exists
Satisfiable ==
    \E f \in [Ids -> UNION {Range(domains_init[id]) : id \in Ids}] :
        /\ \A id \in Ids : f[id] \in Range(domains_init[id])
        /\ ConflictFree(f)

Running == ctl # "idle"

Done == ctl = "idle" /\ Len(results) = Len(calls)

\* C1: in both modes the partial assignment is conflict-free in every state,
\* and so is every solution returned with found = true.
C1_AssignmentConflictFree ==
    /\ ConflictFree(assignment)
    /\ \A k \in 1..Len(results) : results[k].found => ConflictFree(results[k].solution)

\* a forward-checking call has returned a solution in which two courses share a timeslot
C1_Witness ==
    /\ Len(results) = 1 /\ calls[1] /\ results[1].found
    /\ \E a, b \in Ids : a # b /\ results[1].solution[a][1] = results[1].solution[b][1]

\* C2: with the initial domains of build_domains, every value of a working
\* domain and of the assignment belongs to the variable's initial domain and
\* names a room large enough for the course; so does every returned solution.
C2_ValuesFitCapacity ==
    LET Fits(id, v) == /\ v \in Range(domains_init[id])
                       /\ RoomOf(v[2]).capacity >= CourseOf(id).size
    IN  Built =>
          /\ \A id \in Ids : \A v \in Range(domains[id]) : Fits(id, v)
          /\ \A id \in DOMAIN assignment : Fits(id, assignment[id])
          /\ \A k \in 1..Len(results) :
                \A id \in DOMAIN results[k].solution : Fits(id, results[k].solution[id])

\* a solution was returned for a problem in which some room is too small for some course
C2_Witness ==
    /\ Built /\ Len(results) = 1 /\ results[1].found
    /\ \E id \in Ids : \E j \in 1..Len(rooms) : rooms[j].capacity < CourseOf(id).size

\* C3: once a deadline check has found the budget exceeded, the running call
\* tries no further value, makes no further assignment and shrinks no domain.
C3_NoExplorationAfterDeadline ==
    [][(Running /\ timeout(elapsed_us)) =>
          /\ tries' = tries
          /\ DOMAIN assignment' \subseteq DOMAIN assignment
          /\ \A id \in Ids : Len(domains'[id]) >= Len(domains[id])]_vars

\* the root call has returned failure with nothing tried, counted or assigned
RootFailedUntouched ==
    /\ ctl = "return" /\ stack = <<>> /\ ~ret
    /\ tries = 0 /\ backtracks = 0 /\ assignment = EmptyMap

\* C4: when the first deadline check of a call finds the budget exceeded, the
\* root returns failure at once and the call returns found = false with no
\* value tried, no backtrack counted and nothing assigned.
C4_ExpiredAtRoot ==
    [][/\ (ctl = "enter" /\ stack = <<>> /\ elapsed_us' > time_limit_ms * 1000)
            => RootFailedUntouched'
       /\ RootFailedUntouched
            => /\ Len(results') = Len(results) + 1
               /\ LET r == results'[Len(results')]
                  IN  /\ ~r.found
                      /\ r.assignments_tried = 0
                      /\ r.backtracks = 0
                      /\ r.solution = EmptyMap]_vars

\* a call on a non-empty problem with non-empty domains returned untouched after expiring
C4_Witness ==
    /\ Len(results) = 1 /\ results[1].expired /\ results[1].assignments_tried = 0
    /\ Len(courses) = 2
    /\ \A id \in Ids : Len(domains_init[id]) > 0

\* C5: success is passed up unchanged and the solution returned with
\* found = true is that full assignment, one entry per variable; the solution
\* returned with found = false is empty.
C5_NoPartialSolution ==
    [][/\ (ctl = "return" /\ ret)
            => (assignment' = assignment /\ DOMAIN assignment = Ids)
       /\ (ctl = "return" /\ stack = <<>>)
            => LET r == results'[Len(results')]
               IN  /\ Len(results') = Len(results) + 1
                   /\ r.found = ret
                   /\ IF ret THEN r.solution = assignment /\ DOMAIN r.solution = Ids
                             ELSE r.solution = EmptyMap]_vars

\* a call failed after making assignments and undoing them, and returned an empty solution
C5_Witness ==
    /\ Len(results) = 1 /\ ~results[1].found /\ results[1].solution = EmptyMap
    /\ results[1].assignments_tried > 2 /\ results[1].backtracks > 1

\* the problem of three unrelated courses, one room that fits them, two timeslots
ThreeUnrelatedOneRoom ==
    /\ Len(courses) = 3 /\ Len(rooms) = 1 /\ Len(timeslots) = 2 /\ Built
    /\ \A a, b \in Ids : a # b => ~Related(a, b)
    /\ \A id \in Ids : rooms[1].capacity >= CourseOf(id).size

\* C6 as stated: an unsatisfiable problem is reported found = false, and the
\* three-course problem with at least three values tried.
C6_Original ==
    \A k \in 1..Len(results) :
        /\ ~Satisfiable => ~results[k].found
        /\ ThreeUnrelatedOneRoom =>
              (~results[k].found /\ results[k].assignments_tried >= 3)

\* C6 amended: as stated, the count of at least three tries holding for the
\* calls whose deadline did not fire.
C6_UnsatisfiableFails ==
    \A k \in 1..Len(results) :
        /\ ~Satisfiable => ~results[k].found
        /\ ThreeUnrelatedOneRoom =>
              /\ ~results[k].found
              /\ ~results[k].expired => results[k].assignments_tried >= 3

\* a forward-checking call on the three-course problem ran to exhaustion
C6_Witness ==
    /\ ThreeUnrelatedOneRoom /\ ~Satisfiable
    /\ Len(results) = 1 /\ calls[1] /\ ~results[1].expired /\ ~results[1].found

\* two unrelated courses, two timeslots, one room that fits both
TwoUnrelatedOneRoom ==
    /\ Len(courses) = 2 /\ Len(rooms) = 1 /\ Len(timeslots) = 2 /\ Built
    /\ ~Related(courses[1].id, courses[2].id)
    /\ \A id \in Ids : rooms[1].capacity >= CourseOf(id).size

\* C7: on the two-course problem a call whose deadline does not fire returns
\* found = true, backtracks = 0 and the two courses in the same room at
\* different timeslots.
C7_TwoCoursesSolved ==
    \A k \in 1..Len(results) :
        (TwoUnrelatedOneRoom /\ ~results[k].expired) =>
            LET sol == results[k].solution
                a == courses[1].id
                b == courses[2].id
            IN  /\ results[k].found
                /\ results[k].backtracks = 0
                /\ DOMAIN sol = {a, b}
                /\ sol[a][2] = sol[b][2]
                /\ sol[a][1] # sol[b][1]

\* a forward-checking call on the two-course problem has returned without expiring
C7_Witness ==
    /\ TwoUnrelatedOneRoom
    /\ Len(results) = 1 /\ calls[1] /\ ~results[1].expired /\ results[1].found

Unexpired(j, k) == ~results[j].expired /\ ~results[k].expired

\* C8 as stated: on one problem, when neither call expires, forward checking
\* counts no more backtracks than the plain search.
C8_Original ==
    \A j, k \in 1..Len(results) :
        (~calls[j] /\ calls[k] /\ Unexpired(j, k)) =>
            results[k].backtracks <= results[j].backtracks

\* C8 amended: the same for problems of at most three variables.
C8_DominanceUpToThree ==
    \A j, k \in 1..Len(results) :
        (Len(courses) <= 3 /\ ~calls[j] /\ calls[k] /\ Unexpired(j, k)) =>
            results[k].backtracks <= results[j].backtracks

\* both modes ran on a three-course problem and forward checking backtracked less
C8_Witness ==
    /\ Len(courses) = 3 /\ Len(results) = 2 /\ ~calls[1] /\ calls[2]
    /\ Unexpired(1, 2)
    /\ results[2].backtracks < results[1].backtracks

SameOutcome(r1, r2) ==
    /\ r1.found = r2.found
    /\ r1.solution = r2.solution
    /\ r1.assignments_tried = r2.assignments_tried
    /\ r1.backtracks = r2.backtracks

\* C9 as stated: two calls with the same input and mode return the same
\* found flag, solution, tries and backtracks.
C9_Original ==
    \A j, k \in 1..Len(results) :
        calls[j] = calls[k] => SameOutcome(results[j], results[k])

\* C9 amended: the same when neither call's deadline fires.
C9_SameOutcomeUnexpired ==
    \A j, k \in 1..Len(results) :
        (calls[j] = calls[k] /\ Unexpired(j, k)) => SameOutcome(results[j], results[k])

\* two forward-checking calls on one problem both ran to a solution after a failed attempt
C9_Witness ==
    /\ Len(results) = 2 /\ calls[1] /\ calls[2] /\ Unexpired(1, 2)
    /\ results[2].found /\ results[2].backtracks > 0

\* C10: in forward-checking mode, whenever a node is back at the head of its
\* loop (before the next candidate and before it returns failure) the domains
\* and the assignment are exactly those from before the last attempt.
C10_RestoredExactly ==
    (ctl = "loop" /\ forward_checking) =>
        /\ domains = Top.pre_domains
        /\ assignment = Top.pre_assignment

\* a propagation failure that stopped early, leaving a variable unsaved, has been undone
C10_Witness ==
    /\ ctl = "loop" /\ forward_checking /\ Top.i >= 1
    /\ \E k \in DOMAIN Top.saved : Len(Top.saved[k]) > 0
    /\ \E o \in Range(Top.unassigned) : o # Top.var /\ o \notin DOMAIN Top.saved

RECURSIVE SubSeqFrom(_, _, _, _)
\* do s[i..] occur in this order, not necessarily adjacent, within t[j..]?
SubSeqFrom(s, t, i, j) ==
    IF i > Len(s) THEN TRUE
    ELSE IF j > Len(t) THEN FALSE
    ELSE IF s[i] = t[j] THEN SubSeqFrom(s, t, i + 1, j + 1)
    ELSE SubSeqFrom(s, t, i, j + 1)

IsSubSequence(s, t) == SubSeqFrom(s, t, 1, 1)

\* C11: in a forward-checking search every variable's domain on entry to a
\* step is a sub-sequence of its domain on entry to the parent step (and of
\* the initial domain at the root), and whenever a failed attempt of a step
\* has been undone every domain has the size it had on entry to that step.
C11_DomainsShrinkAndReturn ==
    (forward_checking /\ Running) =>
        /\ \A d \in 1..Len(stack) : \A id \in Ids :
              IsSubSequence(stack[d].entry_domains[id],
                            IF d = 1 THEN domains_init[id]
                                     ELSE stack[d - 1].entry_domains[id])
        /\ (ctl = "enter" /\ stack # <<>>) =>
              \A id \in Ids : IsSubSequence(domains[id], Top.entry_domains[id])
        /\ ctl = "loop" =>
              \A id \in Ids : Len(domains[id]) = Len(Top.entry_domains[id])

\* a step two levels below the root, entered with a domain smaller than its
\* parent's, has undone a failed attempt that had shrunk a domain further
C11_Witness ==
    /\ forward_checking /\ ctl = "loop" /\ Len(stack) = 2 /\ Top.i >= 1
    /\ \E id \in Ids :
          Len(stack[2].entry_domains[id]) < Len(stack[1].entry_domains[id])
    /\ \E id \in DOMAIN Top.saved : Len(Top.saved[id]) > 0

SlotIds == Range(timeslots)

RoomIds == {rooms[j].id : j \in 1..Len(rooms)}

\* a record with a found flag, both counters and a mapping from variables to
\* (timeslot, room) pairs
WellFormedResult(r) ==
    /\ r.found \in BOOLEAN
    /\ r.backtracks \in Nat
    /\ r.assignments_tried \in Nat
    /\ DOMAIN r.solution \subseteq Ids
    /\ \A id \in DOMAIN r.solution : r.solution[id] \in SlotIds \X RoomIds

C12_WitnessNoVariables ==
    Done /\ Len(results) = 1 /\ Len(courses) = 0

\* a step is entered that will not end at the deadline check or as a full
\* assignment, while some unassigned variable has an empty domain (one such
\* variable is then the variable of smallest domain)
EntersWithEmptyDomain ==
    /\ ctl = "enter"
    /\ ~(elapsed_us' > time_limit_ms * 1000)
    /\ DOMAIN assignment # Ids
    /\ \E id \in Ids \ DOMAIN assignment : Len(domains[id]) = 0

\* some variable of the problem has no candidate value at all
SomeInitialDomainEmpty == \E id \in Ids : Len(domains_init[id]) = 0

\* C13: a step that selects a variable with an empty domain counts one
\* backtrack, tries no value, assigns nothing and fails; and when some
\* initial domain is empty, a call whose deadline does not fire returns
\* found = false, assignments_tried = 0, backtracks = 1, in both modes.
C13_EmptyDomainFailsAtOnce ==
    [][/\ EntersWithEmptyDomain =>
             /\ backtracks' = backtracks + 1
             /\ tries' = tries
             /\ assignment' = assignment
             /\ domains' = domains
             /\ stack' = stack
             /\ ctl' = "return" /\ ~ret'
       /\ \A k \in 1..Len(results') :
             (SomeInitialDomainEmpty /\ ~results'[k].expired) =>
                 /\ ~results'[k].found
                 /\ results'[k].assignments_tried = 0
                 /\ results'[k].backtracks = 1]_vars

\* a forward-checking call returned unexpired on a problem whose first course
\* has candidate values and whose second has none
C13_Witness ==
    /\ Len(results) = 1 /\ calls[1] /\ ~results[1].expired
    /\ Len(courses) >= 2
    /\ Len(domains_init[courses[1].id]) > 0
    /\ Len(domains_init[courses[2].id]) = 0
    /\ results[1].backtracks = 1 /\ results[1].assignments_tried = 0

\* out lists the values of vals in ascending order of score, values of equal
\* score in their order in vals
SortedStablyBy(out, vals, score(_)) ==
    /\ Len(out) = Len(vals)
    /\ \E pi \in [1..Len(vals) -> 1..Len(vals)] :
          /\ \A p \in 1..Len(vals) : out[p] = vals[pi[p]]
          /\ \A p, q \in 1..Len(vals) :
                p < q => \/ score(vals[pi[p]]) < score(vals[pi[q]])
                         \/ /\ score(vals[pi[p]]) = score(vals[pi[q]])
                            /\ pi[p] < pi[q]

\* ov, a value of o sharing v's timeslot, conflicts with the value v of var
ConflictsWith(var, o, v, ov) == ov[2] = v[2] \/ Related(var, o)

\* the number of other unassigned variables whose FIRST value sharing v's
\* timeslot conflicts with v
ScoreByFirstValue(var, v, doms, unassigned) ==
    Cardinality({o \in Range(unassigned) \ {var} :
        \E k \in 1..Len(doms[o]) :
            /\ doms[o][k][1] = v[1]
            /\ \A j \in 1..(k - 1) : doms[o][j][1] # v[1]
            /\ ConflictsWith(var, o, v, doms[o][k])})

\* the number of other unassigned variables SOME value of which shares v's
\* timeslot and conflicts with v
ScoreBySomeValue(var, v, doms, unassigned) ==
    Cardinality({o \in Range(unassigned) \ {var} :
        \E k \in 1..Len(doms[o]) :
            /\ doms[o][k][1] = v[1]
            /\ ConflictsWith(var, o, v, doms[o][k])})

\* C14 as stated: the ordered values of every step are the selected
\* variable's domain sorted stably by the number of other unassigned
\* variables whose first value in the timeslot conflicts.
C14_Original ==
    \A d \in 1..Len(stack) :
        LET f == stack[d]
            score(v) == ScoreByFirstValue(f.var, v, f.entry_domains, f.unassigned)
        IN  SortedStablyBy(f.ordered_vals, f.entry_domains[f.var], score)

\* C14 amended: the same with the score counting the other unassigned
\* variables that have some conflicting value in the timeslot.
C14_OrderedBySomeConflict ==
    \A d \in 1..Len(stack) :
        LET f == stack[d]
            score(v) == ScoreBySomeValue(f.var, v, f.entry_domains, f.unassigned)
        IN  SortedStablyBy(f.ordered_vals, f.entry_domains[f.var], score)

\* the values of a step were reordered: a value of score two, first in the
\* domain, comes after a value of smaller score
C14_Witness ==
    /\ Len(stack) = 1 /\ Len(Top.ordered_vals) >= 3
    /\ Top.ordered_vals[1] # Top.entry_domains[Top.var][1]
    /\ ScoreBySomeValue(Top.var, Top.entry_domains[Top.var][1],
                        Top.entry_domains, Top.unassigned) = 2

\* the course ids, in the order of the course list, that have no entry in m
UnassignedIn(m) ==
    SelectSeq([i \in 1..Len(courses) |-> courses[i].id], LAMBDA id : id \notin DOMAIN m)

\* the earliest variable of u among those whose domain is smallest
EarliestSmallest(u, doms) ==
    u[CHOOSE k \in 1..Len(u) :
        /\ \A j \in 1..Len(u) : Len(doms[u[j]]) >= Len(doms[u[k]])
        /\ \A j \in 1..(k - 1) : Len(doms[u[j]]) > Len(doms[u[k]])]

\* a step that gets to select a variable (no deadline, assignment not full)
SelectsVariable ==
    /\ ctl = "enter"
    /\ ~(elapsed_us' > time_limit_ms * 1000)
    /\ Cardinality(DOMAIN assignment) # Len(courses)

C15_WitnessNone ==
    /\ ctl = "return" /\ ~ret /\ backtracks = 0 /\ stack = <<>>
    /\ Len(results) = 0
    /\ Len(UnassignedIn(assignment)) = 0
    /\ Cardinality(DOMAIN assignment) # Len(courses)

\* C16: in every state of a plain-mode search the working domains are the
\* initial domains, value for value and in the same order.
C16_PlainLeavesDomains ==
    (Running /\ ~forward_checking) => domains = domains_init

\* a plain search, made after a forward-checking search that ended with
\* pruned domains, has had a step fail below a pending step
C16_Witness ==
    /\ Running /\ ~forward_checking
    /\ Len(results) = 1 /\ calls[1] /\ results[1].found
    /\ Len(stack) >= 1 /\ backtracks >= 1

\* the variables of the pending steps, outermost first
PendingVars == {stack[k].var : k \in 1..Len(stack)}

\* C17: a step entered at depth d (d pending steps above it) finds exactly d
\* entries in the assignment, those of the d pending steps' variables; a
\* tentative assignment adds one entry, for the step's variable, which had
\* none; undoing it removes exactly that entry; and the assignment never has
\* more entries than there are variables.
C17_AssignmentTracksStack ==
    [][/\ ctl' = "enter" =>
             /\ Cardinality(DOMAIN assignment') = Len(stack')
             /\ Cardinality(PendingVars') = Len(stack')
             /\ DOMAIN assignment' = PendingVars'
       /\ (ctl = "loop" /\ assignment' # assignment) =>
             /\ Top.var \notin DOMAIN assignment
             /\ DOMAIN assignment' = DOMAIN assignment \cup {Top.var}
             /\ \A id \in DOMAIN assignment : assignment'[id] = assignment[id]
       /\ ctl = "restore" =>
             /\ Top.var \in DOMAIN assignment
             /\ DOMAIN assignment' = DOMAIN assignment \ {Top.var}
             /\ \A id \in DOMAIN assignment' : assignment'[id] = assignment[id]
       /\ Cardinality(DOMAIN assignment') <= Len(courses)]_vars

\* a step is entered at depth three after an earlier step has failed
C17_Witness ==
    /\ ctl = "enter" /\ Len(stack) = 3 /\ backtracks >= 1
    /\ Cardinality(DOMAIN assignment) = 3

\* some variable without an entry in the assignment m has no value left in doms
SomeUnassignedEmpty(m, doms) == \E id \in Ids \ DOMAIN m : Len(doms[id]) = 0

\* C18: in forward-checking mode, a tentative assignment whose pruning
\* leaves some unassigned variable without values is not followed by a
\* recursive call: it is undone, with no backtrack counted, and the step is
\* back at its loop; so a step entered below the root finds every unassigned
\* variable's domain non-empty.
C18_PropagationFailureSkipsRecursion ==
    [][forward_checking =>
         /\ (ctl = "loop" /\ assignment' # assignment
                /\ SomeUnassignedEmpty(assignment', domains')) =>
                  /\ ctl' = "restore"
                  /\ backtracks' = backtracks
                  /\ Len(stack') = Len(stack)
         /\ ctl = "restore" =>
                  /\ ctl' = "loop"
                  /\ backtracks' = backtracks
                  /\ stack' = stack
         /\ (ctl' = "enter" /\ stack' # <<>>) =>
                  ~SomeUnassignedEmpty(assignment', domains')]_vars

\* two levels below the root, pruning has just emptied a domain
C18_Witness ==
    /\ forward_checking /\ ctl = "restore" /\ Len(stack) = 2
    /\ SomeUnassignedEmpty(assignment, domains)

\* a step is entered with as many entries in the assignment as variables
EntersFull == ctl = "enter" /\ Cardinality(DOMAIN assignment) = Len(courses)

\* success is on its way up: the assignment stays as it is, every pending
\* step returns success in turn, and the record returned has found = true
\* and that assignment as its solution
SuccessReported ==
    (ctl = "return" /\ ret) =>
        /\ assignment' = assignment
        /\ IF stack = <<>>
           THEN /\ Len(results') = Len(results) + 1
                /\ results'[Len(results')].found
                /\ results'[Len(results')].solution = assignment
           ELSE ctl' = "return" /\ ret' /\ Len(stack') = Len(stack) - 1

\* C19 as stated: a step entered with a full assignment returns success,
\* which the search reports with that assignment.
C19_Original ==
    [][/\ EntersFull => (ctl' = "return" /\ ret' /\ assignment' = assignment)
       /\ SuccessReported]_vars

\* C19 amended: the same for a step whose deadline check does not fire.
C19_FullAssignmentSucceeds ==
    [][/\ (EntersFull /\ ~(elapsed_us' > time_limit_ms * 1000))
             => (ctl' = "return" /\ ret' /\ assignment' = assignment)
       /\ SuccessReported]_vars

\* a forward-checking step three levels below the root has just returned
\* success on a full assignment
C19_Witness ==
    /\ forward_checking /\ ctl = "return" /\ ret
    /\ Len(stack) = 3 /\ Len(courses) = 3
    /\ Cardinality(DOMAIN assignment) = 3

\* C20: a call whose deadline does not fire on a problem that has a complete
\* conflict-free assignment within the initial domains returns found = true,
\* in either mode (stated on the records the driver holds between calls: one
\* with found = false and no deadline fired means no such assignment
\* exists); and two calls on one problem, neither expiring, return the same
\* found flag whatever their modes.
C20_Complete ==
    ctl = "idle" =>
        /\ \A k \in 1..Len(results) :
              (~results[k].expired /\ ~results[k].found) => ~Satisfiable
        /\ \A j, k \in 1..Len(results) :
              Unexpired(j, k) => results[j].found = results[k].found

\* the plain and the forward-checking search both solved a problem of at
\* least three courses, one of them after backtracking
C20_Witness ==
    /\ Len(results) = 2 /\ ~calls[1] /\ calls[2] /\ Unexpired(1, 2)
    /\ Len(courses) >= 3 /\ Satisfiable
    /\ results[1].found /\ results[2].found
    /\ results[1].backtracks + results[2].backtracks >= 1

\* giving v to id clashes with no entry of m: no entry in v's timeslot has
\* id's teacher, a group of id, or v's room
ConsistentWith(m, id, v) ==
    \A a \in DOMAIN m :
        m[a][1] = v[1] =>
            /\ CourseOf(a).teacher # CourseOf(id).teacher
            /\ CourseOf(a).groups \cap CourseOf(id).groups = {}
            /\ m[a][2] # v[2]

\* C21: in forward-checking mode, every step is entered with every value of
\* every unassigned variable's domain consistent with the assignment; and
\* every counted try makes a tentative assignment of the step's variable
\* (the conflict check rejects no candidate).
C21_DomainsConsistentOnEntry ==
    [][forward_checking =>
         /\ ctl' = "enter" =>
               \A id \in Ids \ DOMAIN assignment' :
                   \A v \in Range(domains'[id]) : ConsistentWith(assignment', id, v)
         /\ (ctl = "loop" /\ tries' = tries + 1) =>
               /\ Top.var \notin DOMAIN assignment
               /\ DOMAIN assignment' = DOMAIN assignment \cup {Top.var}
               /\ assignment'[Top.var] = Top.ordered_vals[Top.i + 1]
               /\ ConsistentWith(assignment, Top.var, assignment'[Top.var])]_vars

\* a forward-checking step is entered two levels below the root, after a
\* failed attempt, with some unassigned variable's domain pruned
C21_Witness ==
    /\ forward_checking /\ ctl = "enter" /\ Len(stack) = 2 /\ tries >= 3
    /\ \E id \in Ids \ DOMAIN assignment :
          /\ Len(domains[id]) > 0
          /\ Len(domains[id]) < Len(domains_init[id])

=============================================================================
